---- MODULE Spec2Model ----
(***************************************************************************)
(* Collection harness of prometheus-collectors / rf-collectors.            *)
(*                                                                         *)
(* Two near-duplicate implementations live side by side:                   *)
(*   variant = "pull"  : src/prometheus_collectors (prometheus_client)     *)
(*   variant = "push"  : src/rf_collectors         (OpenTelemetry)         *)
(*                                                                         *)
(* The specifications share the state:                                     *)
(*   Spec            the Driver, BaseMetrics.main and main_loop            *)
(*   SpecHttp        the Driver beside the listener thread of --http-daemon*)
(*   SpecGps         the reconnecting stream consumer, gps.Metrics         *)
(*   SpecSsl         the spread sampler, sslchecker.Metrics                *)
(*   SpecSslAbort    the spread sampler with runs that raise               *)
(*   SpecRegistry    the instrument registry, BaseMetrics.metric           *)
(*   SpecRegistryAny the registry under calls with any label keys          *)
(***************************************************************************)
EXTENDS Integers, Sequences, FiniteSets, TLC

VARIABLES
    variant,              \* "pull" | "push": which package runs
    mode,                 \* the delivery-mode flag of self.args
    interval,             \* self.interval (seconds)
    interval_randomize,   \* self.args.interval_randomize (percent)
    pc,                   \* position of the Driver in main_loop
    cycle,                \* number of collection runs begun
    collectPos,           \* position inside the running collect_metrics()
    registry,             \* series -> value: the instruments' current state
    metrics,              \* self.metrics: name -> declared label names (pull)
    collection_errors,    \* the error counter, NoInstrument when it is None
    collection_duration,  \* observations of the duration instrument
    collectCalls,         \* calls of collect_metrics() so far
    publishCalls,         \* sink deliveries attempted so far
    sleepCalls,           \* completed time.sleep() calls so far
    sleepDelay,           \* the last delay handed to time.sleep, in 1/100 s
    prom_file,            \* <<>> while no file exists, else <<content>>
    stdout,               \* the snapshots printed so far
    exported,             \* the snapshots flushed to the exporter so far
    exitCause,            \* "none", or what ended main_loop
    lastRaised,           \* whether the last collect_metrics() raised
    sock,                 \* self.sock of the stream consumer
    wire,                 \* bytes sent by the peer and not read yet
    peerClosed,           \* the peer has closed the current connection
    peerMsgs,             \* messages the peer has sent so far
    events,               \* socket events of the stream consumer, in order
    parsed,               \* the chunk last handed to process_message
    messages_total,       \* the messages counter (all label values summed)
    msgsRead,             \* complete messages removed from the wire by recv
    backoffs,             \* time.sleep(1) calls of the stream consumer
    logged,               \* logger.exception calls of the stream consumer
    full_check_complete,  \* sslchecker.Metrics.full_check_complete
    hosts,                \* the hosts still to visit in this collect_metrics()
    visited,              \* the hosts visited so far in this collect_metrics()
    ssl_cache,            \* sslchecker.Metrics.ssl_cache (push)
    lastRecorded,         \* per host and metric, the value last recorded
    snapshot,             \* the snapshot last published by the sampler
    now,                  \* time.time(), a logical clock
    argv,                 \* the delivery-mode flags on the command line
    setupDone,            \* self.setup() has been called
    listening,            \* start_http_server() has been called
    lastSet,              \* per name and label strings, the value last set
    lastCall,             \* the arguments of the last metric(...).set(...) call
    served,               \* the body of the last response of the HTTP listener
    requests              \* the requests the HTTP listener has served

driverVars == <<pc, collectPos, collectCalls, publishCalls, sleepCalls, sleepDelay,
                prom_file, stdout, exported, exitCause, lastRaised>>
configVars == <<variant, mode, interval, interval_randomize>>
startVars  == <<argv, setupDone, listening>>
httpVars   == <<served, requests>>
instrVars  == <<registry, metrics, collection_errors, collection_duration>>
gpsVars    == <<sock, wire, peerClosed, peerMsgs, events, parsed, messages_total,
                msgsRead, backoffs, logged>>
sslVars    == <<full_check_complete, hosts, visited, ssl_cache, lastRecorded,
                snapshot, now>>
vars == <<configVars, startVars, lastSet, lastCall, httpVars, cycle, driverVars, instrVars, gpsVars, sslVars>>

-----------------------------------------------------------------------------
(* Bounds of the model *)

MaxCycles == 3      \* collection runs explored
RandomScale == 4    \* random.random() takes the values u / RandomScale
MaxMsgs == 2        \* messages the gpsd peer sends
MaxIter == 4        \* iterations of the stream consumer's loop explored
MaxChunk == 6       \* symbols one recv(1024) returns at most
MaxRequests == 2    \* requests the HTTP listener serves

(* Program constants *)

spread_interval == 14400
DefaultRandomize == 10
DefaultPort == 443

NoInstrument == -1  \* stands for the Python value None of an instrument attribute

-----------------------------------------------------------------------------
(* Python values that reach str(): an int or a str, tagged *)

PyInt(n) == <<"int", n>>
PyS(s) == <<"str", s>>

\* str(v) for the values the label dictionaries hold
PyStr(v) ==
    IF v[1] = "int"
    THEN CASE v[2] = 443 -> "443"
           [] v[2] = 25 -> "25"
           [] OTHER -> "int"
    ELSE v[2]

\* the keys of the label dictionaries, in sorted() order
LabelOrder == <<"certificate_cn", "issuer_cn", "server_hostname", "server_port">>

Sorted(keys) == SelectSeq(LabelOrder, LAMBDA k : k \in keys)

\* no metric(...).set(...) call has been made yet
NoCall == [name |-> "", labels |-> [k \in {} |-> 0], value |-> 0]

Has(f, k) == k \in DOMAIN f
Put(f, k, v) == (k :> v) @@ f

\* what a sink renders: the (series, value) pairs of the registry
Render(reg) == {<<k, reg[k]>> : k \in DOMAIN reg}

EmptyMap == [k \in {} |-> 0]

-----------------------------------------------------------------------------
(* The Driver: BaseMetrics.main and BaseMetrics.main_loop *)

\* the flags of the mutually exclusive group of parse_args (pull)
ModeFlags == {"http_daemon", "prom_daemon", "write", "dump"}

SelectModeLenient(v, flags) ==
    IF v = "push" THEN "push"
    ELSE IF flags = {} THEN "http_daemon"
    ELSE CHOOSE m \in flags : TRUE

\* the delivery mode parse_args leaves in self.args, "error" when argparse
\* rejects the command line; the push package has no mode flag at all
SelectMode(v, flags) ==
    IF v = "push" THEN "push"
    ELSE IF Cardinality(flags) = 1 THEN CHOOSE m \in flags : TRUE
    ELSE "error"

\* the delivery modes: four flags of the pull package, one mode of the push one
Modes(v) == IF v = "pull" THEN {"http_daemon", "prom_daemon", "write", "dump"}
            ELSE {"push"}

Daemon(m) == m \in {"http_daemon", "prom_daemon", "push"}
OneShot(m) == m \in {"write", "dump"}

\* main(): pull creates the duration and error instruments only under
\* --http-daemon and leaves them None otherwise; push always creates them
HasOwnInstruments(v, m) == v = "push" \/ m = "http_daemon"

\* the gauges a collect_metrics() callback sets, in the order it sets them
GaugeNames == <<"first", "second">>

NoLabels == <<>>

SetSeriesReplacesName(reg, name, labelvalues, value) ==
    LET others == {k \in DOMAIN reg : k[1] # name} IN
    Put([k \in others |-> reg[k]], <<name, labelvalues>>, value)

\* Gauge.set / instrument.set on one series
SetSeries(reg, name, labelvalues, value) == Put(reg, <<name, labelvalues>>, value)

ReRaisesInDaemon(v, m) == v = "pull" /\ m \in {"write", "dump", "prom_daemon"}

ReRaisesNever(v, m) == FALSE

\* except Exception: `if self.args.write or self.args.dump: raise`
ReRaises(v, m) == v = "pull" /\ m \in {"write", "dump"}

IncTwice(c) == IF c = NoInstrument THEN c ELSE c + 2

\* `if self.collection_errors: self.collection_errors.inc()` and
\* `self.instruments["collection.errors"].add(1)`
IncErrors(c) == IF c = NoInstrument THEN c ELSE c + 1

\* the duration instrument when collect_metrics() returns: Summary.time()
\* observes on leaving the with block; push records after the call
ObserveOnReturn(v, d) == IF d = NoInstrument THEN d ELSE d + 1

\* the duration instrument when collect_metrics() raises: Summary.time()
\* observes on leaving the with block; push skips record() on the way out
ObserveOnRaise(v, d) ==
    IF d = NoInstrument THEN d ELSE IF v = "pull" THEN d + 1 ELSE d

WritesFileOnceOnly(v, m) == v = "pull" /\ m = "write"

\* `if self.args.prom_daemon or self.args.write:` write_to_textfile
WritesFile(v, m) == v = "pull" /\ m \in {"prom_daemon", "write"}

\* the sink call of the Publishing step can raise where main_loop writes the
\* file itself (write_to_textfile)
PublishMayRaise(v, m) == v = "pull" /\ m \in {"prom_daemon", "write"}

\* random.uniform(a, b) == a + (b - a) * random(), random() == u / RandomScale
Uniform(a, b, u) == a + ((b - a) * u) \div RandomScale

SleepDelayWide(i, r, u) == Uniform(i * (100 - r), i * (100 + 2 * r), u)

\* the delay of main_loop, in 1/100 s
SleepDelay(i, r, u) == Uniform(i * (100 - r), i * (100 + r), u)

GpsIdle ==
    /\ sock = "None" /\ wire = <<>> /\ peerClosed = FALSE /\ peerMsgs = 0
    /\ events = <<>> /\ parsed = <<>> /\ messages_total = 0 /\ msgsRead = 0
    /\ backoffs = 0 /\ logged = 0

SslIdle ==
    /\ full_check_complete = FALSE /\ hosts = <<>> /\ visited = <<>>
    /\ ssl_cache = EmptyMap /\ lastRecorded = EmptyMap /\ snapshot = {}
    /\ now = 0

\* what main() has done when it calls main_loop()
Started ==
    /\ argv = IF variant = "pull" THEN {mode} ELSE {}
    /\ setupDone = TRUE
    /\ listening = (mode = "http_daemon")
    /\ lastSet = EmptyMap
    /\ lastCall = NoCall
    /\ served = {}
    /\ requests = 0

\* the state in which main(argv) is called: the class attributes
\* collection_errors and collection_duration are None, nothing is parsed
Init ==
    /\ variant \in {"pull", "push"}
    /\ argv \in (IF variant = "pull" THEN SUBSET ModeFlags ELSE {{}})
    /\ mode = "unset"
    /\ interval \in {60, -5}
    /\ interval_randomize \in {0, DefaultRandomize, 150}
    /\ pc = "Start"
    /\ setupDone = FALSE
    /\ listening = FALSE
    /\ lastSet = EmptyMap
    /\ lastCall = NoCall
    /\ served = {}
    /\ requests = 0
    /\ cycle = 0
    /\ collectPos = 0
    /\ registry = EmptyMap
    /\ metrics = EmptyMap
    /\ collection_errors = NoInstrument
    /\ collection_duration = NoInstrument
    /\ collectCalls = 0 /\ publishCalls = 0 /\ sleepCalls = 0 /\ sleepDelay = 0
    /\ prom_file = <<>> /\ stdout = <<>> /\ exported = <<>>
    /\ exitCause = "none"
    /\ lastRaised = FALSE
    /\ GpsIdle
    /\ SslIdle

\* self.args = self.parse_args(argv): argparse ends the process with a usage
\* error unless the mutually exclusive, required group is satisfied
ParseArgs ==
    /\ pc = "Start"
    /\ LET m == SelectMode(variant, argv) IN
       IF m = "error"
       THEN /\ pc' = "Exited"
            /\ exitCause' = "usage"
            /\ UNCHANGED mode
       ELSE /\ pc' = "Parsed"
            /\ mode' = m
            /\ UNCHANGED exitCause
    /\ UNCHANGED <<variant, interval, interval_randomize, startVars, lastSet, lastCall, httpVars, cycle,
                   collectPos, collectCalls, publishCalls, sleepCalls, sleepDelay,
                   prom_file, stdout, exported, lastRaised, instrVars, gpsVars, sslVars>>

\* main() creates the harness instruments, then calls self.setup()
Setup ==
    /\ pc = "Parsed"
    /\ pc' = "SetUp"
    /\ metrics' = EmptyMap
    /\ collection_errors' = IF HasOwnInstruments(variant, mode) THEN 0 ELSE NoInstrument
    /\ collection_duration' = IF HasOwnInstruments(variant, mode) THEN 0 ELSE NoInstrument
    /\ setupDone' = TRUE
    /\ UNCHANGED <<configVars, argv, listening, lastSet, lastCall, httpVars, cycle, collectPos, collectCalls,
                   publishCalls, sleepCalls, sleepDelay, prom_file, stdout, exported,
                   exitCause, lastRaised, registry, gpsVars, sslVars>>

\* `if self.args.http_daemon: start_http_server(...)`, then main_loop()
StartDelivery ==
    /\ pc = "SetUp"
    /\ pc' = "LoopTop"
    /\ listening' = (mode = "http_daemon")
    /\ UNCHANGED <<configVars, argv, setupDone, lastSet, lastCall, httpVars, cycle, collectPos, collectCalls,
                   publishCalls, sleepCalls, sleepDelay, prom_file, stdout, exported,
                   exitCause, lastRaised, instrVars, gpsVars, sslVars>>

\* "Beginning collection run": the try block is entered
BeginCollect ==
    /\ pc = "LoopTop"
    /\ cycle < MaxCycles
    /\ pc' = "Collecting"
    /\ cycle' = cycle + 1
    /\ collectPos' = 0
    /\ collectCalls' = collectCalls + 1
    /\ UNCHANGED <<publishCalls, sleepCalls, sleepDelay, prom_file, stdout, exported,
                   exitCause, lastRaised, configVars, startVars, lastSet, lastCall, httpVars, instrVars, gpsVars, sslVars>>

\* collect_metrics() sets its next gauge
CollectSet ==
    /\ pc = "Collecting"
    /\ collectPos < Len(GaugeNames)
    /\ collectPos' = collectPos + 1
    /\ registry' = SetSeries(registry, GaugeNames[collectPos + 1], NoLabels, cycle)
    /\ UNCHANGED <<pc, cycle, collectCalls, publishCalls, sleepCalls, sleepDelay,
                   prom_file, stdout, exported, exitCause, lastRaised, metrics,
                   collection_errors, collection_duration, configVars, startVars, lastSet, lastCall, httpVars, gpsVars, sslVars>>

\* collect_metrics() returns
CollectReturn ==
    /\ pc = "Collecting"
    /\ collectPos = Len(GaugeNames)
    /\ collection_duration' = ObserveOnReturn(variant, collection_duration)
    /\ lastRaised' = FALSE
    /\ pc' = "Publishing"
    /\ UNCHANGED <<cycle, collectPos, collectCalls, publishCalls, sleepCalls, sleepDelay,
                   prom_file, stdout, exported, exitCause, registry, metrics,
                   collection_errors, configVars, startVars, lastSet, lastCall, httpVars, gpsVars, sslVars>>

\* collect_metrics() raises an Exception, at any point, and the except
\* clause of main_loop runs
CollectRaise ==
    /\ pc = "Collecting"
    /\ collection_duration' = ObserveOnRaise(variant, collection_duration)
    /\ lastRaised' = TRUE
    /\ IF ReRaises(variant, mode)
       THEN /\ pc' = "Raised"
            /\ exitCause' = "collect"
            /\ UNCHANGED collection_errors
       ELSE /\ pc' = "Publishing"
            /\ collection_errors' = IncErrors(collection_errors)
            /\ UNCHANGED exitCause
    /\ UNCHANGED <<cycle, collectPos, collectCalls, publishCalls, sleepCalls, sleepDelay,
                   prom_file, stdout, exported, registry, metrics,
                   configVars, startVars, lastSet, lastCall, httpVars, gpsVars, sslVars>>

AfterPublishNoReturn(m) == "Sleeping"

AfterPublishNoSleep(m) == IF OneShot(m) THEN "Returned" ELSE "LoopTop"

\* where main_loop goes after the sink call: `if self.args.write or
\* self.args.dump: return`
AfterPublish(m) == IF OneShot(m) THEN "Returned" ELSE "Sleeping"

\* the Publishing step: write_to_textfile, print(generate_latest) or
\* force_flush; under --http-daemon main_loop itself does nothing here
Publish ==
    /\ pc = "Publishing"
    /\ IF variant = "push"
       THEN /\ exported' = Append(exported, Render(registry))
            /\ publishCalls' = publishCalls + 1
            /\ UNCHANGED <<prom_file, stdout>>
       ELSE IF WritesFile(variant, mode)
       THEN /\ prom_file' = <<Render(registry)>>
            /\ publishCalls' = publishCalls + 1
            /\ UNCHANGED <<stdout, exported>>
       ELSE IF mode = "dump"
       THEN /\ stdout' = Append(stdout, Render(registry))
            /\ publishCalls' = publishCalls + 1
            /\ UNCHANGED <<prom_file, exported>>
       ELSE UNCHANGED <<prom_file, stdout, exported, publishCalls>>
    /\ pc' = AfterPublish(mode)
    /\ exitCause' = IF OneShot(mode) THEN "return" ELSE exitCause
    /\ UNCHANGED <<cycle, collectPos, collectCalls, sleepCalls, sleepDelay, lastRaised,
                   instrVars, configVars, startVars, lastSet, lastCall, httpVars, gpsVars, sslVars>>

\* the sink call raises (a file system error): nothing catches it
PublishRaise ==
    /\ pc = "Publishing"
    /\ PublishMayRaise(variant, mode)
    /\ publishCalls' = publishCalls + 1
    /\ pc' = "Raised"
    /\ exitCause' = "publish"
    /\ UNCHANGED <<cycle, collectPos, collectCalls, sleepCalls, sleepDelay, prom_file,
                   stdout, exported, lastRaised, instrVars, configVars, startVars, lastSet, lastCall, httpVars, gpsVars, sslVars>>

\* the Sleeping step: time.sleep(random.uniform(...)); time.sleep raises
\* ValueError on a negative delay
Sleep ==
    /\ pc = "Sleeping"
    /\ \E u \in 0..(RandomScale - 1) :
         LET d == SleepDelay(interval, interval_randomize, u) IN
         /\ sleepDelay' = d
         /\ IF d < 0
            THEN /\ pc' = "Raised"
                 /\ exitCause' = "sleep"
                 /\ UNCHANGED sleepCalls
            ELSE /\ pc' = "LoopTop"
                 /\ sleepCalls' = sleepCalls + 1
                 /\ UNCHANGED exitCause
    /\ UNCHANGED <<cycle, collectPos, collectCalls, publishCalls, prom_file, stdout,
                   exported, lastRaised, instrVars, configVars, startVars, lastSet, lastCall, httpVars, gpsVars, sslVars>>

CanServeWhileSleeping(p) == p = "Sleeping"

\* the listener thread is started before main_loop() and runs beside it: a
\* request can arrive at any position of the Driver in the loop
CanServe(p) == p \in {"LoopTop", "Collecting", "Publishing", "Sleeping"}

RegistryClearedByRequest(reg) == EmptyMap

\* the registry after a request: start_http_server is handed the registry to
\* render it, and no code of the collector runs in the listener thread
RegistryAfterRequest(reg) == reg

\* the listener thread of start_http_server serves one request with the
\* rendering of the registry as it is at that moment
Serve ==
    /\ listening
    /\ CanServe(pc)
    /\ requests < MaxRequests
    /\ requests' = requests + 1
    /\ served' = Render(registry)
    /\ registry' = RegistryAfterRequest(registry)
    /\ UNCHANGED <<configVars, startVars, lastSet, lastCall, cycle, driverVars, metrics,
                   collection_errors, collection_duration, gpsVars, sslVars>>

Next ==
    \/ ParseArgs
    \/ Setup
    \/ StartDelivery
    \/ BeginCollect
    \/ CollectSet
    \/ CollectReturn
    \/ CollectRaise
    \/ Publish
    \/ PublishRaise
    \/ Sleep

Spec == Init /\ [][Next]_vars

\* the Driver together with the listener thread of --http-daemon
NextHttp ==
    \/ ParseArgs
    \/ Setup
    \/ StartDelivery
    \/ BeginCollect
    \/ CollectSet
    \/ CollectReturn
    \/ CollectRaise
    \/ Publish
    \/ PublishRaise
    \/ Sleep
    \/ Serve

SpecHttp == Init /\ [][NextHttp]_vars

-----------------------------------------------------------------------------
(* Claims about the Driver, checked under Spec *)

\* C1: in the daemon modes an exception raised by collect_metrics() never
\* ends main_loop. The step that ends a collection run, by return or by
\* raise, leads to Publishing; Publishing leads to Sleeping unless the sink
\* call itself raises; Sleeping leads back to the top of the loop unless
\* time.sleep itself raises; and the top of the loop leads to Collecting.
C1_CollectNeverEndsDaemonLoop ==
    [][Daemon(mode) =>
         /\ exitCause' # "collect"
         /\ (pc = "Collecting" => pc' \in {"Collecting", "Publishing"})
         /\ (pc = "Publishing" => pc' = "Sleeping" \/ exitCause' = "publish")
         /\ (pc = "Sleeping" => pc' = "LoopTop" \/ exitCause' = "sleep")
         /\ (pc = "LoopTop" => pc' = "Collecting")]_vars

\* a daemon has begun a further collection run after a run that raised
C1_Witness ==
    /\ Daemon(mode)
    /\ pc = "Collecting"
    /\ lastRaised
    /\ cycle >= 2

\* C2: in the one-shot modes a raising collect_metrics() propagates out of
\* main_loop and the Publishing step never runs: no file is written and
\* nothing is printed.
C2_OneShotRaisePropagates ==
    (OneShot(mode) /\ lastRaised) =>
        /\ pc = "Raised"
        /\ exitCause = "collect"
        /\ publishCalls = 0
        /\ prom_file = <<>>
        /\ stdout = <<>>

\* a one-shot run whose collect_metrics() raised after setting a gauge
C2_Witness ==
    /\ OneShot(mode)
    /\ lastRaised
    /\ collectPos >= 1
    /\ registry # EmptyMap

\* C3: in the one-shot modes collect_metrics() runs exactly once and, when
\* it returns, the snapshot is published exactly once and main_loop returns;
\* no Sleeping step and no second Collecting step ever happen.
C3_OneShotRunsOnce ==
    /\ [](OneShot(mode) =>
            /\ collectCalls <= 1
            /\ publishCalls <= 1
            /\ sleepCalls = 0
            /\ pc # "Sleeping"
            /\ (pc = "Publishing" => collectCalls = 1 /\ ~lastRaised /\ publishCalls = 0)
            /\ (pc = "Returned" =>
                  /\ collectCalls = 1
                  /\ publishCalls = 1
                  /\ (mode = "write" => prom_file = <<Render(registry)>>)
                  /\ (mode = "dump" => stdout = <<Render(registry)>>)))
    /\ [][OneShot(mode) =>
            /\ pc \notin {"Returned", "Raised"}
            /\ (pc = "Publishing" => pc' \in {"Returned", "Raised"})]_vars

\* a one-shot run that has published and returned
C3_Witness ==
    /\ OneShot(mode)
    /\ pc = "Returned"
    /\ registry # EmptyMap

Slept == sleepCalls > 0 \/ exitCause = "sleep"

\* the endpoints of the jitter range, in 1/100 s
JitterLo == interval * (100 - interval_randomize)
JitterHi == interval * (100 + interval_randomize)

C13_ExactlyOneModeOrUsageError ==
    /\ (variant = "pull" /\ Cardinality(argv) # 1 /\ pc # "Start") =>
           /\ pc = "Exited" /\ exitCause = "usage"
           /\ ~setupDone /\ ~listening
           /\ cycle = 0 /\ collectCalls = 0 /\ publishCalls = 0
    /\ (setupDone \/ listening \/ collectCalls > 0) =>
           /\ Daemon(mode) \/ OneShot(mode)
           /\ variant = "pull" => argv = {mode}

\* a command line with two mode flags has been rejected
C13_Witness ==
    /\ pc = "Exited"
    /\ Cardinality(argv) = 2
    /\ ~setupDone

\* C14: in periodic write-to-file mode every cycle, whether collect() returned
\* or raised, goes on to the Publishing step, and the cycle reaches its sleep
\* only through a Publishing step that has overwritten the output file with a
\* render of the current registry.
C14_FileWrittenBeforeEverySleep ==
    /\ [](mode = "prom_daemon" /\ pc = "Sleeping" =>
             /\ prom_file = <<Render(registry)>>
             /\ publishCalls = cycle)
    /\ [][mode = "prom_daemon" =>
             /\ (pc = "Collecting" /\ pc' # "Collecting") => pc' = "Publishing"
             /\ (pc # "Sleeping" /\ pc' = "Sleeping") =>
                    /\ pc = "Publishing"
                    /\ prom_file' = <<Render(registry)>>
                    /\ publishCalls' = publishCalls + 1
             /\ (sleepCalls' # sleepCalls \/ sleepDelay' # sleepDelay) =>
                    pc = "Sleeping"]_vars

\* the second cycle raised after setting a gauge, and the file already holds
\* the registry of that cycle while the Driver is about to sleep
C14_Witness ==
    /\ mode = "prom_daemon"
    /\ pc = "Sleeping"
    /\ cycle = 2
    /\ lastRaised
    /\ \E e \in Render(registry) : e[2] = 2
    /\ prom_file = <<Render(registry)>>

\* C15: in periodic write-to-file and push daemon modes a Publishing step
\* that fails does not end the Driver loop: the Driver goes on to Sleeping and
\* to a further Collecting.
C15_PublishFailureNeverEndsLoop ==
    mode \in {"prom_daemon", "push"} =>
        exitCause # "publish"

\* C20: each execution of the Collecting step records exactly one observation
\* in the duration instrument, both when collect() returns and when it raises.
\* Stated for the configurations in which main() creates a duration
\* instrument (--http-daemon and push); under --prom-daemon, --write and
\* --dump the attribute stays None and there is nothing to record into.
C20_EveryCollectObservedOnce ==
    [][(HasOwnInstruments(variant, mode) /\ pc = "Collecting" /\ pc' # "Collecting") =>
           collection_duration' = collection_duration + 1]_vars

\* C29: for every interval and jitter percentage that parse_args accepts, the
\* delay handed to time.sleep is not negative and the Sleeping step does not
\* raise out of the daemon loop.
C29_SleepDelayNeverNegative ==
    Slept => (sleepDelay >= 0 /\ exitCause # "sleep")

-----------------------------------------------------------------------------
(* Claims about the Driver beside the listener thread, checked under SpecHttp *)

\* C26: the collection runs of one process never overlap and each goes
\* through Collecting, Publishing, Sleeping in that order. A call of
\* collect_metrics() begins only at the top of the loop, when every earlier
\* run has finished its Collecting step, its sink call and its sleep; the
\* calls begun exceed the sleeps finished by one at most, and by exactly one
\* while a call is in progress.
C26_RunsNeverOverlap ==
    /\ [][collectCalls' # collectCalls =>
            /\ collectCalls' = collectCalls + 1
            /\ pc = "LoopTop" /\ pc' = "Collecting"
            /\ sleepCalls = collectCalls
            /\ (mode # "http_daemon" => publishCalls = collectCalls)]_vars
    /\ [][pc' # pc =>
            /\ (pc = "Collecting" => pc' \in {"Publishing", "Raised"})
            /\ (pc = "Publishing" => pc' \in {"Sleeping", "Returned", "Raised"})
            /\ (pc = "Sleeping" => pc' \in {"LoopTop", "Raised"})
            /\ (pc' = "Collecting" => pc = "LoopTop")
            /\ (pc' = "Publishing" => pc = "Collecting")
            /\ (pc' = "Sleeping" => pc = "Publishing")]_vars
    /\ [](/\ collectCalls = cycle
          /\ collectCalls - sleepCalls \in {0, 1}
          /\ (pc = "Collecting" => collectCalls = sleepCalls + 1)
          /\ (pc = "LoopTop" => collectCalls = sleepCalls))

\* the second run is collecting after the first one has collected, written
\* its file and slept
C26_Witness ==
    /\ mode = "prom_daemon"
    /\ pc = "Collecting"
    /\ collectCalls = 2
    /\ publishCalls = 1
    /\ sleepCalls = 1
    /\ collectPos = 1

ServedValues(body, name) == {e[2] : e \in {x \in body : x[1][1] = name}}

\* C28: under --http-daemon a response is not atomic with respect to a
\* collection run: whenever collect_metrics() has set its first gauge and
\* not yet its second, a request can be served, and its response carries
\* the first gauge with the value of this run and the second one with the
\* value of an earlier run, or, when no earlier run has set it, not at all.
C28_ResponseCanMixRuns ==
    (listening /\ pc = "Collecting" /\ collectPos = 1 /\ requests < MaxRequests) =>
        ENABLED (/\ Serve
                 /\ ServedValues(served', "first") = {cycle}
                 /\ \A v \in ServedValues(served', "second") : v < cycle
                 /\ (Has(registry, <<"second", NoLabels>>) =>
                        ServedValues(served', "second") # {}))

\* a response served during the second run: the first gauge of run 2 beside
\* the second gauge of run 1
C28_Witness ==
    /\ listening
    /\ pc = "Collecting"
    /\ cycle = 2
    /\ served = {<<<<"first", NoLabels>>, 2>>, <<<<"second", NoLabels>>, 1>>}

-----------------------------------------------------------------------------
(* The Reconnecting Stream Consumer: gps.Metrics *)

\* what the peer sends, one JSON value per line.  "TPV" is a report with a
\* class and a mode; "SKY" is a SKY report without its "satellites" key;
\* "noclass" is a JSON object without a "class" key; "scalar" is a JSON
\* value that is no container (a number, null)
Kinds == {"TPV", "SKY", "noclass", "scalar"}

Sym(t, kind, id) == [t |-> t, kind |-> kind, id |-> id]

\* the bytes of one message: the object's opening part, its closing part and
\* the newline that ends the line; a scalar is one indivisible part
Msg(kind, id) ==
    IF kind = "scalar" THEN <<Sym("value", kind, id), Sym("nl", kind, id)>>
    ELSE <<Sym("open", kind, id), Sym("close", kind, id), Sym("nl", kind, id)>>

RECURSIVE LStrip(_)
LStrip(c) == IF c # <<>> /\ Head(c).t = "nl" THEN LStrip(Tail(c)) ELSE c

RECURSIVE RStrip(_)
RStrip(c) ==
    IF c # <<>> /\ c[Len(c)].t = "nl" THEN RStrip(SubSeq(c, 1, Len(c) - 1)) ELSE c

\* json.loads(buf): succeeds when buf holds exactly one JSON value, white
\* space around it allowed; raises on a part of a value and on extra data
JsonLoads(buf) ==
    LET c == RStrip(LStrip(buf)) IN
    IF /\ Len(c) = 2
       /\ c[1].t = "open" /\ c[2].t = "close"
       /\ c[1].id = c[2].id
    THEN [ok |-> TRUE, kind |-> c[1].kind, id |-> c[1].id]
    ELSE IF Len(c) = 1 /\ c[1].t = "value"
    THEN [ok |-> TRUE, kind |-> c[1].kind, id |-> c[1].id]
    ELSE [ok |-> FALSE, kind |-> "", id |-> 0]

Device == <<"">>

\* process_message(buf): what it does to the registry and the messages
\* counter, and whether it raises
process_message(reg, buf) ==
    LET j == JsonLoads(buf) IN
    IF ~j.ok THEN [registry |-> reg, counted |-> 0, raised |-> FALSE]
    ELSE IF j.kind = "scalar"
    THEN \* `"class" not in j` raises TypeError on an int, a float or None
         [registry |-> reg, counted |-> 0, raised |-> TRUE]
    ELSE IF j.kind = "noclass" THEN [registry |-> reg, counted |-> 0, raised |-> FALSE]
    ELSE IF j.kind = "TPV"
    THEN [registry |-> SetSeries(reg, "tpv_mode", Device, j.id),
          counted |-> 1, raised |-> FALSE]
    ELSE \* SKY: the gauges of the keys present are set, then j["satellites"]
         \* raises KeyError
         [registry |-> SetSeries(reg, "sky_geometric_dop", Device, j.id),
          counted |-> 1, raised |-> TRUE]

\* complete messages with a class among the symbols of a chunk
ClassMsgsEnding(data) ==
    Cardinality({i \in DOMAIN data : data[i].t = "nl" /\ data[i].kind \in {"TPV", "SKY"}})

ProcessHandlerDropsSock(s) == "None"

\* self.sock after the except clause around process_message: the clause logs
\* and counts, and does not touch the socket
ProcessHandlerSock(s) == s

\* whether the object has an attribute collection_errors: BaseMetrics of the
\* pull package declares it, BaseMetrics of the push package does not
HasErrorsAttribute(v) == v = "pull"

InitGps ==
    /\ variant \in {"pull", "push"}
    /\ mode = IF variant = "pull" THEN "http_daemon" ELSE "push"
    /\ interval = 60
    /\ interval_randomize = DefaultRandomize
    /\ pc = "Running"
    /\ cycle = 0
    /\ collectPos = 0
    /\ registry = EmptyMap
    /\ metrics = EmptyMap
    /\ collection_errors = 0
    /\ collection_duration = 0
    /\ collectCalls = 0 /\ publishCalls = 0 /\ sleepCalls = 0 /\ sleepDelay = 0
    /\ prom_file = <<>> /\ stdout = <<>> /\ exported = <<>>
    /\ exitCause = "none"
    /\ lastRaised = FALSE
    /\ Started
    /\ GpsIdle
    /\ SslIdle

gpsFrame == <<configVars, startVars, lastSet, lastCall, httpVars, collectPos, collectCalls, publishCalls, sleepCalls, sleepDelay,
              prom_file, stdout, exported, metrics, sslVars>>

\* the except clause of main_loop after main_loop_connection() raised, with
\* the events the failing call has appended
ConnectionHandler(refused, evs) ==
    /\ logged' = IF refused THEN logged ELSE logged + 1
    /\ IF HasErrorsAttribute(variant)
       THEN /\ collection_errors' = collection_errors + 1
            /\ events' = evs \o <<"close">>
            /\ sock' = "None"
            /\ backoffs' = backoffs + 1
            /\ wire' = <<>>
            /\ peerClosed' = FALSE
            /\ UNCHANGED <<pc, exitCause>>
       ELSE \* self.collection_errors raises AttributeError inside the handler
            /\ pc' = "Raised"
            /\ exitCause' = "AttributeError"
            /\ events' = evs
            /\ sock' = IF sock = "None" THEN "Unconnected" ELSE sock
            /\ UNCHANGED <<collection_errors, backoffs, wire, peerClosed>>
    /\ cycle' = cycle + 1
    /\ UNCHANGED <<registry, collection_duration, lastRaised, parsed, messages_total,
                   msgsRead, peerMsgs, gpsFrame>>

\* main_loop_connection() with self.sock None: socket(), connect() and the
\* handshake send() succeed; the call goes on to block in recv()
GpsConnect ==
    /\ pc = "Running" /\ sock = "None" /\ cycle < MaxIter
    /\ sock' = "Connected"
    /\ events' = events \o <<"connect", "send">>
    /\ wire' = <<>>
    /\ peerClosed' = FALSE
    /\ UNCHANGED <<pc, cycle, exitCause, registry, collection_errors, collection_duration,
                   lastRaised, parsed, messages_total, msgsRead, peerMsgs, backoffs,
                   logged, gpsFrame>>

\* connect() raises ConnectionRefusedError
GpsConnectRefused ==
    /\ pc = "Running" /\ sock = "None" /\ cycle < MaxIter
    /\ ConnectionHandler(TRUE, events \o <<"connect", "refused">>)

\* connect() raises another OSError (timeout, unreachable)
GpsConnectError ==
    /\ pc = "Running" /\ sock = "None" /\ cycle < MaxIter
    /\ ConnectionHandler(FALSE, events \o <<"connect", "error">>)

\* recv(1024) returns a chunk and the loop hands it to process_message
GpsRecvData ==
    /\ pc = "Running" /\ sock = "Connected" /\ cycle < MaxIter
    /\ \E n \in 1..MaxChunk :
         /\ n <= Len(wire)
         /\ LET data == SubSeq(wire, 1, n)
                res == process_message(registry, data)
            IN /\ wire' = SubSeq(wire, n + 1, Len(wire))
               /\ events' = Append(events, "recv")
               /\ parsed' = data
               /\ msgsRead' = msgsRead + ClassMsgsEnding(data)
               /\ registry' = res.registry
               /\ messages_total' = messages_total + res.counted
               /\ lastRaised' = res.raised
               /\ collection_errors' =
                     IF res.raised THEN collection_errors + 1 ELSE collection_errors
               /\ logged' = IF res.raised THEN logged + 1 ELSE logged
               /\ sock' = IF res.raised THEN ProcessHandlerSock(sock) ELSE sock
               /\ collection_duration' =
                     IF res.raised THEN ObserveOnRaise(variant, collection_duration)
                     ELSE ObserveOnReturn(variant, collection_duration)
    /\ cycle' = cycle + 1
    /\ UNCHANGED <<pc, exitCause, peerClosed, peerMsgs, backoffs, gpsFrame>>

\* recv(1024) returns b"": main_loop_connection raises ValueError("gpsd EOF")
GpsRecvEOF ==
    /\ pc = "Running" /\ sock = "Connected" /\ cycle < MaxIter
    /\ wire = <<>> /\ peerClosed
    /\ ConnectionHandler(FALSE, Append(events, "eof"))

\* recv(1024) raises an OSError (connection reset)
GpsRecvError ==
    /\ pc = "Running" /\ sock = "Connected" /\ cycle < MaxIter
    /\ ConnectionHandler(FALSE, Append(events, "error"))

\* gpsd writes one more message to the connection
PeerSend ==
    /\ pc = "Running" /\ sock = "Connected" /\ ~peerClosed
    /\ peerMsgs < MaxMsgs
    /\ \E kind \in Kinds : wire' = wire \o Msg(kind, peerMsgs + 1)
    /\ peerMsgs' = peerMsgs + 1
    /\ UNCHANGED <<pc, cycle, exitCause, sock, peerClosed, events, parsed, messages_total,
                   msgsRead, backoffs, logged, registry, collection_errors,
                   collection_duration, lastRaised, gpsFrame>>

\* gpsd closes the connection
PeerClose ==
    /\ pc = "Running" /\ sock = "Connected" /\ ~peerClosed
    /\ peerClosed' = TRUE
    /\ UNCHANGED <<pc, cycle, exitCause, sock, wire, peerMsgs, events, parsed,
                   messages_total, msgsRead, backoffs, logged, registry,
                   collection_errors, collection_duration, lastRaised, gpsFrame>>

NextGps ==
    \/ GpsConnect
    \/ GpsConnectRefused
    \/ GpsConnectError
    \/ GpsRecvData
    \/ GpsRecvEOF
    \/ GpsRecvError
    \/ PeerSend
    \/ PeerClose

SpecGps == InitGps /\ [][NextGps]_vars

-----------------------------------------------------------------------------
(* Claims about the stream consumer, checked under SpecGps *)

\* C5: for any sequence of connect failures, read errors and empty reads,
\* main_loop of the stream consumer never raises out and never terminates, in
\* the pull package and in the push package alike.
C5_ConsumerNeverRaisesOut == pc # "Raised"

\* the reads of the consumer in the events, and the one that follows place i
ReadAt(i) == events[i] \in {"recv", "eof", "error"} /\ events[i - 1] # "connect"

NextRead(i) ==
    CHOOSE j \in (i + 1)..Len(events) :
        /\ ReadAt(j)
        /\ \A k \in (i + 1)..(j - 1) : ~ReadAt(k)

\* C6: after an empty read (EOF) the consumer closes the socket and makes
\* exactly one new connect, with one handshake send, before its next read.
C6_OneReconnectAfterEOF ==
    \A i \in DOMAIN events :
        events[i] = "eof" =>
            /\ i < Len(events)
            /\ events[i + 1] = "close"
            /\ (\E j \in (i + 1)..Len(events) : ReadAt(j)) =>
                  LET j == NextRead(i) IN
                  /\ events[j - 2] = "connect" /\ events[j - 1] = "send"
                  /\ Cardinality({k \in (i + 1)..(j - 1) : events[k] = "send"}) = 1

\* C7: once the reads of a connection that has not failed have taken all the
\* bytes the peer sent, every complete message with a class has been handed
\* to the parser and counted once in the messages counter, however the bytes
\* were divided among the reads.
C7_EveryMessageCountedOnce ==
    (/\ pc = "Running"
     /\ sock = "Connected"
     /\ wire = <<>>
     /\ \A i \in DOMAIN events : events[i] # "close") =>
        messages_total = msgsRead

\* the socket events that are failures of connect or read
FailureEvents == {"refused", "error", "eof"}

Failures(evs) == Cardinality({i \in DOMAIN evs : evs[i] \in FailureEvents})

LastFailure(evs) ==
    evs[CHOOSE i \in DOMAIN evs :
            /\ evs[i] \in FailureEvents
            /\ \A j \in DOMAIN evs : j > i => evs[j] \notin FailureEvents]

\* C16: each failure of connect or read (connection refused, another I/O
\* error, an empty read) increments the error counter by exactly one; a
\* refused connection is not logged and every other failure is logged once.
C16_EveryConnectionFailureCounted ==
    [][Failures(events') = Failures(events) + 1 =>
           /\ collection_errors' = collection_errors + 1
           /\ logged' = IF LastFailure(events') = "refused" THEN logged ELSE logged + 1]_vars

\* a read: recv() returning data or b"", or raising on a connected socket
IsRead(i) ==
    \/ events[i] \in {"recv", "eof"}
    \/ events[i] = "error" /\ i > 1 /\ events[i - 1] # "connect"

\* C17: the consumer holds at most one socket: a connect is attempted only
\* with no socket held, the previous one closed; a read is issued only on the
\* socket whose connect and single handshake send succeeded; and every
\* failure of connect or read is followed by closing the socket and clearing
\* the handle before anything else is done with it.
C17_OneSocketClosedAfterFailure ==
    /\ \A i \in DOMAIN events :
         /\ events[i] = "connect" => (i = 1 \/ events[i - 1] = "close")
         /\ events[i] = "send" => (i > 1 /\ events[i - 1] = "connect")
         /\ IsRead(i) => (i > 1 /\ events[i - 1] \in {"send", "recv"})
         /\ events[i] \in FailureEvents => (i < Len(events) /\ events[i + 1] = "close")
    /\ events # <<>> =>
         (sock = "None" <=> events[Len(events)] = "close")

\* the chunk is not parseable as JSON, or what it parses to has no class
NoClassChunk(data) ==
    LET j == JsonLoads(data) IN ~j.ok \/ j.kind \in {"noclass", "scalar"}

\* C18: a chunk handed to the parser that is not parseable or carries no
\* message class is dropped silently: no gauge changes, the messages counter
\* and the error counter are unchanged, nothing is logged and the connection
\* stays Connected.  (The duration instrument of the harness, which observes
\* every chunk handed to the parser, is not part of the formula.)
C18_UnknownChunkDroppedSilently ==
    [][(events' = Append(events, "recv") /\ NoClassChunk(parsed')) =>
           /\ registry' = registry
           /\ messages_total' = messages_total
           /\ collection_errors' = collection_errors
           /\ logged' = logged
           /\ sock' = "Connected"]_vars

\* C19: when the parse-and-update step raises, the error counter goes up by
\* exactly one, the socket is neither closed nor replaced, no back-off sleep
\* is taken and the loop goes on; what follows a read that returned data on
\* the connection is another read on it, never a connect or a close.
C19_ProcessErrorKeepsConnection ==
    /\ [][(events' = Append(events, "recv") /\ lastRaised') =>
             /\ collection_errors' = collection_errors + 1
             /\ sock = "Connected" /\ sock' = sock
             /\ backoffs' = backoffs
             /\ pc' = "Running"]_vars
    /\ [](\A i \in DOMAIN events :
             events[i] = "recv" =>
                 /\ i = Len(events) => sock = "Connected"
                 /\ i < Len(events) => IsRead(i + 1))

\* the first chunk made the parser raise and a second chunk has since been
\* read from the same connection
C19_Witness ==
    /\ events = <<"connect", "send", "recv", "recv">>
    /\ collection_errors = 1
    /\ ~lastRaised
    /\ backoffs = 0
    /\ sock = "Connected"

-----------------------------------------------------------------------------
(* The Adaptive Spread Sampler: sslchecker.Metrics *)

\* self.config["hosts"]: the second entry has no "port" key
ConfigHosts ==
    <<[hostname |-> "smtp.example.com", hasPort |-> TRUE, port |-> 25],
      [hostname |-> "www.example.com", hasPort |-> FALSE, port |-> 0]>>

HostIds == DOMAIN ConfigHosts

\* `if "port" not in host: host["port"] = 443`
PortOf(h) == IF ConfigHosts[h].hasPort THEN ConfigHosts[h].port ELSE DefaultPort

\* what check_host() can return: a certificate, its renewal under the same
\* names, and a certificate under another subject CN
Certs ==
    {[serial |-> 1, not_before |-> 100, not_after |-> 200, subject_cn |-> "a", issuer_cn |-> "ca"],
     [serial |-> 2, not_before |-> 150, not_after |-> 250, subject_cn |-> "a", issuer_cn |-> "ca"],
     [serial |-> 3, not_before |-> 160, not_after |-> 260, subject_cn |-> "b", issuer_cn |-> "ca"]}

\* base_labels = {"server_hostname": hostname, "server_port": port}
base_labels(h) ==
    [k \in {"server_hostname", "server_port"} |->
        IF k = "server_hostname" THEN PyS(ConfigHosts[h].hostname) ELSE PyInt(PortOf(h))]

\* labels = {**base_labels, "certificate_cn": res[3], "issuer_cn": res[4]}
\* (skip_labels is empty)
cert_labels(h, res) ==
    [k \in {"server_hostname", "server_port", "certificate_cn", "issuer_cn"} |->
        IF k = "certificate_cn" THEN PyS(res.subject_cn)
        ELSE IF k = "issuer_cn" THEN PyS(res.issuer_cn)
        ELSE base_labels(h)[k]]

metric_set_unlabelled(st, key, labels, value) ==
    [metrics |-> IF Has(st.metrics, key) THEN st.metrics
                 ELSE Put(st.metrics, key, Sorted(DOMAIN labels)),
     registry |-> SetSeries(st.registry, key, <<>>, value)]

metric_set_redeclares(st, key, labels, value) ==
    LET ms == Put(st.metrics, key, Sorted(DOMAIN labels))
        names == ms[key]
        label_values == [i \in 1..Len(names) |-> PyStr(labels[names[i]])]
    IN [metrics |-> ms, registry |-> SetSeries(st.registry, key, label_values, value)]

\* BaseMetrics.metric(key, labels).set(value) of the pull package, on the
\* pair st = [metrics, registry]: the instrument is created on first use with
\* sorted(labels.keys()); the label values are str(labels.get(name, ""))
metric_set(st, key, labels, value) ==
    LET ms == IF Has(st.metrics, key) THEN st.metrics
              ELSE Put(st.metrics, key, Sorted(DOMAIN labels))
        names == ms[key]
        label_values ==
            [i \in 1..Len(names) |->
                PyStr(IF names[i] \in DOMAIN labels THEN labels[names[i]] ELSE PyS(""))]
    IN [metrics |-> ms, registry |-> SetSeries(st.registry, key, label_values, value)]

SelectSharedDraw(complete, draws) ==
    IF complete
    THEN SelectSeq([i \in HostIds |-> i],
                   LAMBDA h : draws[1] * spread_interval < interval * RandomScale)
    ELSE [i \in HostIds |-> i]

SelectEveryHost(complete, draws) == [i \in HostIds |-> i]

SelectAlways(complete, draws) ==
    SelectSeq([i \in HostIds |-> i],
              LAMBDA h : draws[h] * spread_interval < interval * RandomScale)

\* the first lines of collect_metrics(): all hosts until the full check is
\* complete, else the hosts whose random.random() is below
\* 1.0 / (spread_interval / interval), in configuration order
SelectHosts(complete, draws) ==
    IF complete
    THEN SelectSeq([i \in HostIds |-> i],
                   LAMBDA h : draws[h] * spread_interval < interval * RandomScale)
    ELSE [i \in HostIds |-> i]

VisitFailPullClearsTime(st, h) ==
    metric_set(metric_set(st, "retrieval_success_boolean", base_labels(h), 0),
               "retrieval_time_seconds", base_labels(h), 0)

\* pull, check_host() raised: the except clause
VisitFailPull(st, h) == metric_set(st, "retrieval_success_boolean", base_labels(h), 0)

\* pull, check_host() returned res at time t
VisitOkPull(st, h, res, t) ==
    LET s1 == metric_set(st, "retrieval_time_seconds", base_labels(h), t)
        s2 == metric_set(s1, "retrieval_success_boolean", base_labels(h), 1)
        s3 == metric_set(s2, "serial_number", cert_labels(h, res), res.serial)
        s4 == metric_set(s3, "not_before_seconds", cert_labels(h, res), res.not_before)
    IN metric_set(s4, "not_after_seconds", cert_labels(h, res), res.not_after)

\* `if host_port not in self.ssl_cache: self.ssl_cache[host_port] = {}`
CacheEntry(cache, h) == IF Has(cache, h) THEN cache[h] ELSE EmptyMap

\* push, check_host() raised: the except clause
VisitFailPush(cache, h) ==
    Put(cache, h, Put(CacheEntry(cache, h), "retrieval.success", <<0, base_labels(h)>>))

\* push, check_host() returned res at time t
VisitOkPush(cache, h, res, t) ==
    LET e1 == Put(CacheEntry(cache, h), "retrieval.time", <<t, base_labels(h)>>)
        e2 == Put(e1, "retrieval.success", <<1, base_labels(h)>>)
        e3 == Put(e2, "not.before", <<res.not_before, cert_labels(h, res)>>)
        e4 == Put(e3, "not.after", <<res.not_after, cert_labels(h, res)>>)
    IN Put(cache, h, e4)

RepublishNothing(reg, cache) == reg

\* push, the last loop of collect_metrics(): every cached (value, labels) is
\* set again on its instrument
Republish(reg, cache) ==
    LET entries == {<<h, k>> \in (DOMAIN cache) \X
                        {"retrieval.time", "retrieval.success", "not.before", "not.after"} :
                        Has(cache[h], k)}
        keys == {<<e[2], cache[e[1]][e[2]][2]>> : e \in entries}
    IN [key \in keys \cup DOMAIN reg |->
           IF key \in keys
           THEN LET e == CHOOSE e \in entries : <<e[2], cache[e[1]][e[2]][2]>> = key
                IN cache[e[1]][e[2]][1]
           ELSE reg[key]]

\* the values a visit records for host h, by instrument
RecordedOk(res, t) ==
    IF variant = "pull"
    THEN [m \in {"retrieval_time_seconds", "retrieval_success_boolean", "serial_number",
                 "not_before_seconds", "not_after_seconds"} |->
             CASE m = "retrieval_time_seconds" -> t
               [] m = "retrieval_success_boolean" -> 1
               [] m = "serial_number" -> res.serial
               [] m = "not_before_seconds" -> res.not_before
               [] OTHER -> res.not_after]
    ELSE [m \in {"retrieval.time", "retrieval.success", "not.before", "not.after"} |->
             CASE m = "retrieval.time" -> t
               [] m = "retrieval.success" -> 1
               [] m = "not.before" -> res.not_before
               [] OTHER -> res.not_after]

AfterFailedVisitBreak(hs) == <<>>

\* the hosts still to visit after the except clause around check_host():
\* `continue` goes on with the next host
AfterFailedVisit(hs) == Tail(hs)

FlagResetAtEnd(flag) == ~flag

\* `if not self.full_check_complete: self.full_check_complete = True`
FlagAtEnd(flag) == IF ~flag THEN TRUE ELSE flag

SuccessName == IF variant = "pull" THEN "retrieval_success_boolean" ELSE "retrieval.success"

InitSsl ==
    /\ variant \in {"pull", "push"}
    /\ mode = IF variant = "pull" THEN "prom_daemon" ELSE "push"
    /\ interval \in {60, spread_interval}
    /\ interval_randomize = DefaultRandomize
    /\ pc = "LoopTop"
    /\ cycle = 0
    /\ collectPos = 0
    /\ registry = EmptyMap
    /\ metrics = EmptyMap
    /\ collection_errors = IF HasOwnInstruments(variant, mode) THEN 0 ELSE NoInstrument
    /\ collection_duration = IF HasOwnInstruments(variant, mode) THEN 0 ELSE NoInstrument
    /\ collectCalls = 0 /\ publishCalls = 0 /\ sleepCalls = 0 /\ sleepDelay = 0
    /\ prom_file = <<>> /\ stdout = <<>> /\ exported = <<>>
    /\ exitCause = "none"
    /\ lastRaised = FALSE
    /\ Started
    /\ GpsIdle
    /\ SslIdle

sslFrame == <<configVars, startVars, lastSet, lastCall, httpVars, collectPos, publishCalls, sleepCalls, sleepDelay, prom_file,
              stdout, exported, exitCause, gpsVars>>

\* collect_metrics() is called and chooses the hosts of this run
SslBegin ==
    /\ pc = "LoopTop"
    /\ cycle < MaxCycles
    /\ \E draws \in [HostIds -> 0..(RandomScale - 1)] :
          hosts' = SelectHosts(full_check_complete, draws)
    /\ visited' = <<>>
    /\ cycle' = cycle + 1
    /\ now' = now + 1
    /\ collectCalls' = collectCalls + 1
    /\ pc' = "Visiting"
    /\ UNCHANGED <<full_check_complete, ssl_cache, lastRecorded, snapshot, registry,
                   metrics, lastRaised, collection_errors, collection_duration, sslFrame>>

\* one turn of `for host in hosts` in which check_host() returns
SslVisitOk ==
    /\ pc = "Visiting"
    /\ hosts # <<>>
    /\ \E res \in Certs :
         LET h == Head(hosts) IN
         /\ IF variant = "pull"
            THEN LET st == VisitOkPull([metrics |-> metrics, registry |-> registry],
                                       h, res, now)
                 IN /\ metrics' = st.metrics
                    /\ registry' = st.registry
                    /\ UNCHANGED ssl_cache
            ELSE /\ ssl_cache' = VisitOkPush(ssl_cache, h, res, now)
                 /\ UNCHANGED <<metrics, registry>>
         /\ lastRecorded' = Put(lastRecorded, h, RecordedOk(res, now))
         /\ visited' = Append(visited, <<h, TRUE>>)
    /\ hosts' = Tail(hosts)
    /\ UNCHANGED <<pc, cycle, now, collectCalls, full_check_complete, snapshot,
                   lastRaised, collection_errors, collection_duration, sslFrame>>

\* one turn of `for host in hosts` in which check_host() raises
SslVisitFail ==
    /\ pc = "Visiting"
    /\ hosts # <<>>
    /\ LET h == Head(hosts) IN
         /\ IF variant = "pull"
            THEN LET st == VisitFailPull([metrics |-> metrics, registry |-> registry], h)
                 IN /\ metrics' = st.metrics
                    /\ registry' = st.registry
                    /\ UNCHANGED ssl_cache
            ELSE /\ ssl_cache' = VisitFailPush(ssl_cache, h)
                 /\ UNCHANGED <<metrics, registry>>
         /\ lastRecorded' =
               Put(lastRecorded, h,
                   Put(IF Has(lastRecorded, h) THEN lastRecorded[h] ELSE EmptyMap,
                       SuccessName, 0))
         /\ visited' = Append(visited, <<h, FALSE>>)
    /\ hosts' = AfterFailedVisit(hosts)
    /\ UNCHANGED <<pc, cycle, now, collectCalls, full_check_complete, snapshot,
                   lastRaised, collection_errors, collection_duration, sslFrame>>

\* the end of collect_metrics(): the flag is set and, in the push package,
\* the cache is set on the instruments; main_loop observes the duration
SslEnd ==
    /\ pc = "Visiting"
    /\ hosts = <<>>
    /\ full_check_complete' = FlagAtEnd(full_check_complete)
    /\ registry' = IF variant = "push" THEN Republish(registry, ssl_cache) ELSE registry
    /\ lastRaised' = FALSE
    /\ collection_duration' = ObserveOnReturn(variant, collection_duration)
    /\ pc' = "Publishing"
    /\ UNCHANGED <<cycle, now, collectCalls, hosts, visited, ssl_cache, lastRecorded,
                   snapshot, metrics, collection_errors, sslFrame>>

\* collect_metrics() raises at the start of a turn of `for host in hosts`,
\* outside the try around check_host() (hostname = host["hostname"] on an
\* entry without that key): the rest of the function is skipped and the
\* except clause of main_loop runs
SslAbort ==
    /\ pc = "Visiting"
    /\ hosts # <<>>
    /\ lastRaised' = TRUE
    /\ collection_errors' = IncErrors(collection_errors)
    /\ collection_duration' = ObserveOnRaise(variant, collection_duration)
    /\ pc' = "Publishing"
    /\ UNCHANGED <<cycle, now, collectCalls, hosts, visited, ssl_cache, lastRecorded,
                   snapshot, metrics, registry, full_check_complete, sslFrame>>

\* the Publishing step of main_loop after collect_metrics() returned
SslPublish ==
    /\ pc = "Publishing"
    /\ snapshot' = Render(registry)
    /\ pc' = "LoopTop"
    /\ UNCHANGED <<cycle, now, collectCalls, hosts, visited, ssl_cache, lastRecorded,
                   full_check_complete, registry, metrics, lastRaised,
                   collection_errors, collection_duration, sslFrame>>

NextSsl ==
    \/ SslBegin
    \/ SslVisitOk
    \/ SslVisitFail
    \/ SslEnd
    \/ SslPublish

\* every host entry of the configuration is well formed: no run of
\* collect_metrics() raises
SpecSsl == InitSsl /\ [][NextSsl]_vars

\* the sampler with runs of collect_metrics() that raise
NextSslAbort ==
    \/ SslBegin
    \/ SslVisitOk
    \/ SslVisitFail
    \/ SslEnd
    \/ SslAbort
    \/ SslPublish

SpecSslAbort == InitSsl /\ [][NextSslAbort]_vars

-----------------------------------------------------------------------------
(* Claims about the spread sampler, checked under SpecSsl *)

\* the value of label `name` of a series
LabelOf(key, name) ==
    IF variant = "pull"
    THEN LET names == metrics[key[1]]
             idx == CHOOSE i \in DOMAIN names : names[i] = name
         IN key[2][idx]
    ELSE PyStr(key[2][name])

\* the (series, value) pairs of a snapshot that belong to host h
SeriesOfHost(h, snap) ==
    {e \in snap :
        /\ LabelOf(e[1], "server_hostname") = ConfigHosts[h].hostname
        /\ LabelOf(e[1], "server_port") = PyStr(PyInt(PortOf(h)))}

VisitedHosts == {visited[i][1] : i \in DOMAIN visited}
FailedHosts == {visited[i][1] : i \in {j \in DOMAIN visited : ~visited[j][2]}}

NotAfterName == IF variant = "pull" THEN "not_after_seconds" ELSE "not.after"

\* host h has had a successful visit
FirstSuccessDone(h) == Has(lastRecorded, h) /\ Has(lastRecorded[h], NotAfterName)

\* C8: the first collect_metrics() run of a process visits every configured
\* host, one at a time and in configuration order, whatever the random draws
\* and whatever the outcome of each visit.
C8_FirstCycleFullPass ==
    (cycle = 1 /\ pc \in {"Visiting", "Publishing"}) =>
        /\ [i \in 1..Len(visited) |-> visited[i][1]] \o hosts = [i \in HostIds |-> i]
        /\ (pc = "Publishing" => Len(visited) = Len(ConfigHosts))

\* the first run has ended, its first visit failed, and the configured
\* interval makes a draw select only some hosts
C8_Witness ==
    /\ cycle = 1
    /\ pc = "Publishing"
    /\ Len(visited) = Len(ConfigHosts)
    /\ ~visited[1][2]
    /\ interval < spread_interval

\* C9: once a host has had a successful visit, the snapshot published at the
\* end of every run holds, for every metric, the value last recorded for that
\* host; and a run that does not visit the host publishes all of its series
\* unchanged.
C9_LastValueStaysPublished ==
    /\ []((pc = "LoopTop" /\ cycle >= 1) =>
            \A h \in HostIds :
                FirstSuccessDone(h) =>
                    \A m \in DOMAIN lastRecorded[h] :
                        \E e \in SeriesOfHost(h, snapshot) :
                            e[1][1] = m /\ e[2] = lastRecorded[h][m])
    /\ [][(pc = "Publishing" /\ pc' = "LoopTop") =>
            \A h \in HostIds \ VisitedHosts :
                SeriesOfHost(h, snapshot') = SeriesOfHost(h, snapshot)]_vars

\* a run after the first has been published in which one host was visited
\* and another, visited with success before, was not
C9_Witness ==
    /\ pc = "LoopTop"
    /\ cycle >= 2
    /\ VisitedHosts # {}
    /\ \E h \in HostIds \ VisitedHosts :
          /\ FirstSuccessDone(h)
          /\ SeriesOfHost(h, snapshot) # {}

\* C10: a failed visit sets the host's retrieval-success indicator to 0 and
\* changes nothing else: every other recorded value of the host, and every
\* value of the other hosts, stays as it was, and stays in the snapshot the
\* run publishes.
C10_FailedVisitOnlyClearsSuccess ==
    [][/\ (/\ pc = "Visiting"
           /\ Len(visited') = Len(visited) + 1
           /\ ~visited'[Len(visited')][2]) =>
             LET h == Head(hosts) IN
             IF variant = "pull"
             THEN LET sk == <<"retrieval_success_boolean",
                              <<ConfigHosts[h].hostname, PyStr(PyInt(PortOf(h)))>>>>
                  IN /\ DOMAIN registry' = DOMAIN registry \cup {sk}
                     /\ registry'[sk] = 0
                     /\ \A k \in DOMAIN registry \ {sk} : registry'[k] = registry[k]
             ELSE /\ registry' = registry
                  /\ ssl_cache'[h]["retrieval.success"][1] = 0
                  /\ \A g \in DOMAIN ssl_cache' \ {h} :
                        Has(ssl_cache, g) /\ ssl_cache'[g] = ssl_cache[g]
                  /\ \A m \in DOMAIN ssl_cache'[h] \ {"retrieval.success"} :
                        /\ Has(ssl_cache, h)
                        /\ Has(ssl_cache[h], m)
                        /\ ssl_cache'[h][m] = ssl_cache[h][m]
       /\ (pc = "Publishing" /\ pc' = "LoopTop") =>
             \A h \in FailedHosts :
                 /\ {e \in SeriesOfHost(h, snapshot') : e[1][1] # SuccessName}
                       = {e \in SeriesOfHost(h, snapshot) : e[1][1] # SuccessName}
                 /\ \E e \in SeriesOfHost(h, snapshot') :
                       e[1][1] = SuccessName /\ e[2] = 0]_vars

\* a run has been published in which the visit to a host failed that had
\* been visited with success in an earlier run
C10_Witness ==
    /\ pc = "LoopTop"
    /\ cycle >= 2
    /\ \E h \in FailedHosts :
          /\ FirstSuccessDone(h)
          /\ lastRecorded[h][SuccessName] = 0
          /\ \E e \in SeriesOfHost(h, snapshot) : e[1][1] = NotAfterName

\* the hosts of a set, in configuration order
SeqOf(S) == SelectSeq([i \in HostIds |-> i], LAMBDA h : h \in S)

\* the hosts this run has visited or is still to visit, in order
Selected == [i \in 1..Len(visited) |-> visited[i][1]] \o hosts

\* S is what independent draws in [0,1), one per host, select when a host is
\* taken iff its draw is less than interval / spread_interval
DrawsSelect(S) ==
    \E draws \in [HostIds -> 0..(RandomScale - 1)] :
        S = {h \in HostIds : draws[h] * spread_interval < interval * RandomScale}

\* C22: a run begun after the full pass visits exactly the hosts whose own
\* draw is below interval / spread_interval: the runs that can begin are
\* those independent draws allow, so any subset of the hosts (none included)
\* when 0 < interval < spread_interval and all hosts when interval >=
\* spread_interval, and the hosts visited by the end of the run are the ones
\* selected.
C22_VisitedIffDrawBelowRatio ==
    /\ (pc = "LoopTop" /\ full_check_complete /\ cycle < MaxCycles) =>
          \A S \in SUBSET HostIds :
              /\ (ENABLED (SslBegin /\ hosts' = SeqOf(S))) <=> DrawsSelect(S)
              /\ (0 < interval /\ interval < spread_interval) =>
                     ENABLED (SslBegin /\ hosts' = SeqOf(S))
              /\ (interval >= spread_interval /\ S # HostIds) =>
                     ~ENABLED (SslBegin /\ hosts' = SeqOf(S))
    /\ (cycle >= 2 /\ pc \in {"Visiting", "Publishing"}) =>
          /\ Selected = SeqOf({Selected[i] : i \in DOMAIN Selected})
          /\ DrawsSelect({Selected[i] : i \in DOMAIN Selected})
          /\ pc = "Publishing" => hosts = <<>>

\* a run after the full pass has visited the second host only
C22_Witness ==
    /\ cycle >= 2
    /\ pc = "Publishing"
    /\ full_check_complete
    /\ Len(visited) = 1
    /\ visited[1][1] = 2

\* C23: a failed visit is isolated to its host: the step that records it
\* leaves collect_metrics() running with the hosts selected after it still to
\* be visited, raises nothing and leaves the global error counter as it was;
\* and the run ends only when every selected host has been visited.
C23_FailedVisitIsolated ==
    /\ [][(/\ pc = "Visiting"
           /\ Len(visited') = Len(visited) + 1
           /\ ~visited'[Len(visited')][2]) =>
              /\ pc' = "Visiting"
              /\ hosts' = Tail(hosts)
              /\ collection_errors' = collection_errors
              /\ lastRaised' = lastRaised
              /\ exitCause' = exitCause]_vars
    /\ [](pc = "Publishing" => (hosts = <<>> /\ ~lastRaised /\ exitCause = "none"))

\* the visit to the first host failed, the second host was still visited
\* with success, the run has ended and no error has been counted
C23_Witness ==
    /\ variant = "push"
    /\ pc = "Publishing"
    /\ Len(visited) = 2
    /\ ~visited[1][2]
    /\ visited[2][2]
    /\ collection_errors = 0
    /\ ~lastRaised

RetrievalTimeName == IF variant = "pull" THEN "retrieval_time_seconds" ELSE "retrieval.time"

\* C24: there is no bound on the runs between two visits of a host: whenever
\* a run is about to begin after the full pass, with an interval below the
\* spread interval, it can be a run that leaves out any given host, and even
\* every host; so a host visited in run 1 can be left out of each of the next
\* n runs, for every n.
C24_NextRunCanSkipAnyHost ==
    (pc = "LoopTop" /\ full_check_complete /\ cycle < MaxCycles
        /\ 0 < interval /\ interval < spread_interval) =>
        /\ ENABLED (SslBegin /\ hosts' = <<>>)
        /\ \A h \in HostIds :
              ENABLED (SslBegin /\ \A i \in DOMAIN hosts' : hosts'[i] # h)

\* the last run of the model has ended and a host was visited in run 1 and
\* in no run since: its retrieval time is that of run 1 and its success
\* indicator was never cleared
C24_Witness ==
    /\ pc = "LoopTop"
    /\ cycle = MaxCycles
    /\ \E h \in HostIds :
          /\ FirstSuccessDone(h)
          /\ lastRecorded[h][RetrievalTimeName] = 1
          /\ lastRecorded[h][SuccessName] = 1
          /\ h \notin VisitedHosts
          /\ \E e \in SeriesOfHost(h, snapshot) :
                e[1][1] = RetrievalTimeName /\ e[2] = 1

\* the gauges the pull package labels with the names of the certificate
CertNames == {"serial_number", "not_before_seconds", "not_after_seconds"}

\* the label strings of host h with a certificate of subject cn and issuer
\* icn, in the order of the declared names
CertTuple(h, cn, icn) ==
    <<cn, icn, ConfigHosts[h].hostname, IF ConfigHosts[h].hasPort THEN "25" ELSE "443">>

\* the value of gauge n for certificate res
CertValue(res, n) ==
    CASE n = "serial_number" -> res.serial
      [] n = "not_before_seconds" -> res.not_before
      [] OTHER -> res.not_after

-----------------------------------------------------------------------------
(* Claims about the spread sampler with aborted runs, checked under         *)
(* SpecSslAbort                                                             *)

\* C21: the flag full_check_complete is false before the first run, becomes
\* true exactly at the end of a run that reaches its end, and is never reset;
\* a run that aborts with an exception leaves it as it was, and every run
\* begun while it is false is a full pass over the configured hosts.
C21_FlagSetByFirstCompleteRun ==
    /\ [](collectCalls = 0 => ~full_check_complete)
    /\ [][/\ full_check_complete => full_check_complete'
          /\ (pc = "Visiting" /\ pc' = "Publishing") =>
                IF hosts = <<>>
                THEN full_check_complete' /\ ~lastRaised'
                ELSE full_check_complete' = full_check_complete /\ lastRaised'
          /\ ~(pc = "Visiting" /\ pc' = "Publishing") =>
                full_check_complete' = full_check_complete
          /\ (pc = "LoopTop" /\ pc' = "Visiting" /\ ~full_check_complete) =>
                hosts' = [i \in HostIds |-> i]]_vars

\* the first run aborted (the one error counted), and the second run, begun
\* with the flag still false, was a full pass again although a draw would
\* select only some hosts, and has reached its end
C21_Witness ==
    /\ variant = "push"
    /\ cycle = 2
    /\ collection_errors = 1
    /\ pc = "Publishing"
    /\ ~lastRaised
    /\ full_check_complete
    /\ Len(visited) = Len(ConfigHosts)
    /\ interval < spread_interval

-----------------------------------------------------------------------------
(* The instrument registry: BaseMetrics.metric(key, labels).set(value) of   *)
(* the pull package, specification SpecRegistry                             *)

MaxSets == 4
MaxValue == 2

\* the gauges of a collector that passes one label-key-set per name
RegistryNames == {"up", "expiry"}

KeysOf(name) == IF name = "up" THEN {"server_hostname"}
                ELSE {"server_hostname", "server_port"}

\* label values as collectors pass them: strings and integers
ValuesOf(k) == IF k = "server_hostname" THEN {PyS("a"), PyS("b")}
               ELSE {PyInt(443), PyS("443"), PyInt(25)}

LabelDicts(name) ==
    {l \in [KeysOf(name) -> UNION {ValuesOf(k) : k \in KeysOf(name)}] :
        \A k \in KeysOf(name) : l[k] \in ValuesOf(k)}

\* the label-tuple of a call: the strings of its values, in key order
LabelTuple(name, labels) ==
    LET names == Sorted(KeysOf(name))
    IN [i \in 1..Len(names) |-> PyStr(labels[names[i]])]

AllLabelTuples(name) == {LabelTuple(name, l) : l \in LabelDicts(name)}

InitRegistry ==
    /\ variant = "pull"
    /\ mode = "prom_daemon"
    /\ interval = 60
    /\ interval_randomize = DefaultRandomize
    /\ pc = "Collecting"
    /\ cycle = 0
    /\ collectPos = 0
    /\ registry = EmptyMap
    /\ metrics = EmptyMap
    /\ collection_errors = NoInstrument
    /\ collection_duration = NoInstrument
    /\ collectCalls = 1 /\ publishCalls = 0 /\ sleepCalls = 0 /\ sleepDelay = 0
    /\ prom_file = <<>> /\ stdout = <<>> /\ exported = <<>>
    /\ exitCause = "none"
    /\ lastRaised = FALSE
    /\ Started
    /\ GpsIdle
    /\ SslIdle

\* one call self.metric(name, labels).set(value); cycle counts the calls
MetricSet ==
    /\ cycle < MaxSets
    /\ \E name \in RegistryNames : \E labels \in LabelDicts(name) :
       \E value \in 0..MaxValue :
         LET st == metric_set([metrics |-> metrics, registry |-> registry],
                              name, labels, value)
         IN /\ metrics' = st.metrics
            /\ registry' = st.registry
            /\ lastSet' = Put(lastSet, <<name, LabelTuple(name, labels)>>, value)
            /\ lastCall' = [name |-> name, labels |-> labels, value |-> value]
    /\ cycle' = cycle + 1
    /\ UNCHANGED <<configVars, startVars, httpVars, driverVars, collection_errors,
                   collection_duration, gpsVars, sslVars>>

NextRegistry == MetricSet

SpecRegistry == InitRegistry /\ [][NextRegistry]_vars

\* C11: after any sequence of metric(name, labels).set(value) calls with one
\* label-key-set per name, the rendered registry holds, for each label-tuple
\* that was set, exactly the value of the most recent set on it, and holds
\* nothing (not a zero) for a label-tuple that was never set.
C11_RegistryHoldsLastSet ==
    /\ Render(registry) = {<<k, lastSet[k]>> : k \in DOMAIN lastSet}
    /\ \A name \in RegistryNames : \A t \in AllLabelTuples(name) :
         IF <<name, t>> \in DOMAIN lastSet
         THEN registry[<<name, t>>] = lastSet[<<name, t>>]
         ELSE \A e \in Render(registry) : e[1] # <<name, t>>

\* a series was overwritten, one holds a zero that was set, and another
\* label-tuple of the same name was never set
C11_Witness ==
    /\ cycle > Cardinality(DOMAIN registry)
    /\ \E name \in RegistryNames : \E t1, t2 \in AllLabelTuples(name) :
         /\ <<name, t1>> \in DOMAIN registry
         /\ registry[<<name, t1>>] = 0
         /\ <<name, t2>> \notin DOMAIN registry

-----------------------------------------------------------------------------
(* The instrument registry under calls whose label keys differ from call to *)
(* call, specification SpecRegistryAny                                      *)

\* the number of calls of a behaviour of SpecRegistryAny
MaxAnySets == 3

\* the label dictionaries of the calls: any non-empty set of keys
AnyLabelDicts ==
    UNION {[K -> {PyS("a"), PyS("b"), PyInt(443)}] :
              K \in (SUBSET {"server_hostname", "server_port"}) \ {{}}}

\* the label strings the call addresses, by the names declared for the key
DeclaredTuple(names, labels) ==
    [i \in 1..Len(names) |->
        IF names[i] \in DOMAIN labels THEN PyStr(labels[names[i]]) ELSE ""]

\* one call self.metric(name, labels).set(value) with any label keys; the
\* value set is the number of the call
MetricSetAny ==
    /\ cycle < MaxAnySets
    /\ \E name \in RegistryNames : \E labels \in AnyLabelDicts :
         LET st == metric_set([metrics |-> metrics, registry |-> registry],
                              name, labels, cycle + 1)
         IN /\ metrics' = st.metrics
            /\ registry' = st.registry
            /\ lastSet' = Put(lastSet, <<name, DeclaredTuple(st.metrics[name], labels)>>,
                              cycle + 1)
            /\ lastCall' = [name |-> name, labels |-> labels, value |-> cycle + 1]
    /\ cycle' = cycle + 1
    /\ UNCHANGED <<configVars, startVars, httpVars, driverVars, collection_errors,
                   collection_duration, gpsVars, sslVars>>

NextRegistryAny == MetricSetAny

SpecRegistryAny == InitRegistry /\ [][NextRegistryAny]_vars

====
